---------------------------- MODULE Spec2Model ----------------------------
(***************************************************************************)
(* CHRONOS backend: the event store with its request handlers              *)
(* (backend/routes/events.js), the free-slot finder                        *)
(* (GET /api/events/suggestions/free-slots) and the cron-driven reminder   *)
(* dispatcher (backend/services/notificationService.js, server.js).        *)
(*                                                                         *)
(* Time is counted in units of 1/UnitsPerMinute minute since local         *)
(* midnight of the target day.                                             *)
(***************************************************************************)
EXTENDS Integers, Sequences, FiniteSets, TLC

VARIABLES
  events,         \* the Event collection: event id -> document, NoEvent or Deleted
  response,       \* the last HTTP response sent, or NoResponse
  todos,          \* the Todo collection: todo id -> document or NoTodo
  notifications,  \* the Notification collection: a bag of documents
  sweeps,         \* the checkUpcomingEvents invocations: cron tick -> invocation
  requests,       \* the number of requests that have changed a store
  calendars,      \* the Calendar collection: calendar id -> document, NoCalendar or DeletedCalendar
  handlers,       \* the requests being handled in several awaited steps
  emitted,        \* the socket messages sent: room and notification
  read,           \* the notifications with read: true, a sub-bag of notifications
  sessions,       \* the FocusSession collection: session id -> document or NoSession
  focusStats,     \* user -> the focusStats of the User document
  undoStack,      \* useHistoryStore: the actions to undo, newest first
  redoStack       \* useHistoryStore: the actions to redo, newest first

\* The state outside the event and todo stores and the dispatcher
focus == <<sessions, focusStats>>
history == <<undoStack, redoStack>>
others == <<calendars, handlers, read, focus, history>>
vars == <<events, response, todos, notifications, sweeps, requests, emitted, others>>
dispatcher == <<todos, notifications, sweeps, requests, emitted, others>>

----------------------------------------------------------------------------
(* Bounds of the model *)

MaxEvents == 2            \* event ids are 1..MaxEvents
MaxInstant == 4           \* instants are 0..MaxInstant
MaxTicks == 2             \* the cron ticks of the minutes 1..MaxTicks
MaxTodos == 2             \* todo ids are 1..MaxTodos
MaxRequests == 2          \* requests that change a store

(* Program constants *)

UnitsPerMinute == 2       \* one unit is 30 000 ms; the code divides ms by 1000 * 60

EventIds == 1..MaxEvents
Users == {"u1", "u2"}
Instants == 0..MaxInstant

NoEvent == [doc |-> "none"]       \* an id no document was ever stored under
Deleted == [doc |-> "deleted"]    \* an id whose document was deleted (ids are not reused)
NoResponse == [route |-> "none"]

\* An optional request field: <<>> when undefined, <<v>> when it is v.
Absent == <<>>
Given(v) == <<v>>
Optional(S) == {Absent} \cup { Given(v) : v \in S }

Max(a, b) == IF a >= b THEN a ELSE b
Min(a, b) == IF a <= b THEN a ELSE b

----------------------------------------------------------------------------
(* The Event model *)

\* eventSchema.pre('save'): a save is refused when end <= start.
PreSaveValid(ev) == ~(ev.end <= ev.start)

Stored(id) == events[id] \notin {NoEvent, Deleted}

\* reminders: [{type, time: {default: 15}, sent: {default: false}}]
DefaultReminderTime == 15
NewReminder(t) == [time |-> t, sent |-> FALSE]

\* A new document's _id: ObjectIds are fresh and increase.
FreshIds == { id \in EventIds : events[id] = NoEvent }
NextId == CHOOSE id \in FreshIds : \A other \in FreshIds : id <= other

----------------------------------------------------------------------------
(* GET /api/events/suggestions/free-slots *)

\* dayStart / dayEnd: targetDate with the hours and minutes of 'HH:MM' set.
\* A working-hours string 'HH:MM' is the pair <<HH, MM>>, split(':') and
\* parseInt giving its two numbers.
DayInstant(hhmm) == (hhmm[1] * 60 + hhmm[2]) * UnitsPerMinute

\* Event.find({user, start: {$lt: dayEnd}, end: {$gt: dayStart}})
MatchingEvents(userId, dayStart, dayEnd) ==
  { id \in EventIds : /\ Stored(id)
                      /\ events[id].user = userId
                      /\ events[id].start < dayEnd
                      /\ events[id].end > dayStart }

\* .sort({start: 1}): every listing of the matching documents in ascending
\* start; the store fixes no order among documents with equal start.
SortedByStart(ids) ==
  { s \in [1..Cardinality(ids) -> ids] :
      /\ \A i, j \in DOMAIN s : i # j => s[i] # s[j]
      /\ \A i, j \in DOMAIN s : i < j => events[s[i]].start <= events[s[j]].start }

\* Mutant: the comparison is turned round.
MeetsDurationReversed(from, to, duration) == (to - from) <= duration * UnitsPerMinute

\* slotDuration >= duration, slotDuration being (to - from) ms / (1000 * 60)
MeetsDuration(from, to, duration) == (to - from) >= duration * UnitsPerMinute

\* freeSlots.push({start, end, duration: slotDuration}); the duration field
\* is kept in time units (minutes * UnitsPerMinute).
Slot(from, to) == [start |-> from, end |-> to, duration |-> to - from]

\* Mutant: the cursor is set to the event's end, not to the maximum.
AdvanceCursorNoMax(currentTime, eventEnd) == eventEnd

\* The cursor is set to the smaller of the two.
AdvanceCursorMin(currentTime, eventEnd) == Min(currentTime, eventEnd)

\* currentTime = new Date(Math.max(currentTime, eventEnd))
AdvanceCursor(currentTime, eventEnd) == Max(currentTime, eventEnd)

\* One iteration of the for loop over the sorted events: st is
\* [slots, currentTime], the result the state after the event.
SlotStep(st, ev, dayStart, dayEnd, duration) ==
  LET eventStart == Max(ev.start, dayStart)
      eventEnd == Min(ev.end, dayEnd)
      gap == /\ st.currentTime < eventStart
             /\ MeetsDuration(st.currentTime, eventStart, duration)
  IN [slots |-> IF gap THEN Append(st.slots, Slot(st.currentTime, eventStart))
                       ELSE st.slots,
      currentTime |-> AdvanceCursor(st.currentTime, eventEnd)]

RECURSIVE SlotLoop(_, _, _, _, _)
SlotLoop(order, k, dayStart, dayEnd, duration) ==
  IF k = 0 THEN [slots |-> <<>>, currentTime |-> dayStart]
  ELSE SlotStep(SlotLoop(order, k - 1, dayStart, dayEnd, duration),
                events[order[k]], dayStart, dayEnd, duration)

\* Mutant: the gap after the last event is forgotten.
FindFreeSlotsNoTrailingGap(order, dayStart, dayEnd, duration) ==
  SlotLoop(order, Len(order), dayStart, dayEnd, duration).slots

\* The whole computation: the loop, then the gap after the last event.
FindFreeSlots(order, dayStart, dayEnd, duration) ==
  LET st == SlotLoop(order, Len(order), dayStart, dayEnd, duration)
  IN IF /\ st.currentTime < dayEnd
        /\ MeetsDuration(st.currentTime, dayEnd, duration)
     THEN Append(st.slots, Slot(st.currentTime, dayEnd))
     ELSE st.slots


\* The handler: the events are fetched and sorted, the slots computed and
\* sent. workingHours is req.user.preferences.workingHours, duration the
\* query's duration (minutes), 60 when the query has none.
DefaultDuration == 60
GetFreeSlots(userId, workingHours, durationParam) ==
  LET duration == IF durationParam = Absent THEN DefaultDuration ELSE durationParam[1]
      dayStart == DayInstant(workingHours.start)
      dayEnd == DayInstant(workingHours.end)
  IN \E order \in SortedByStart(MatchingEvents(userId, dayStart, dayEnd)) :
       /\ response' = [route |-> "free-slots", status |-> 200, user |-> userId,
                       dayStart |-> dayStart, dayEnd |-> dayEnd,
                       duration |-> duration,
                       freeSlots |-> FindFreeSlots(order, dayStart, dayEnd, duration)]
       /\ UNCHANGED events

----------------------------------------------------------------------------
(* The Todo and Notification models *)

TodoIds == 1..MaxTodos
NoTodo == [doc |-> "none"]
StoredTodo(id) == todos[id] # NoTodo
FreshTodoIds == { id \in TodoIds : todos[id] = NoTodo }
NextTodoId == CHOOSE id \in FreshTodoIds : \A other \in FreshTodoIds : id <= other

\* POST /api/todos: new Todo({..., dueDate, reminder}) and todo.save().
\* status defaults to 'pending', reminder.sent to false.
NewTodo(userId, dueDate, enabled) ==
  [user |-> userId, status |-> "pending", dueDate |-> dueDate,
   reminder |-> [enabled |-> enabled, sent |-> FALSE]]

\* Notification.create(doc): one more document equal to doc in the bag.
NoNotifications == [doc \in {} |-> 0]
\* A create that adds nothing when an equal document is in the collection
CreateUnlessPresent(bag, doc) == IF doc \in DOMAIN bag THEN bag ELSE bag @@ (doc :> 1)
Create(bag, doc) ==
  IF doc \in DOMAIN bag THEN [bag EXCEPT ![doc] = @ + 1] ELSE bag @@ (doc :> 1)

----------------------------------------------------------------------------
(* The event and todo routes *)

Reply(route, status) == [route |-> route, status |-> status]

\* POST /api/events: new Event({..., reminders: reminders || [{type:
\* 'notification', time: 15}]}) and event.save(), refused by the pre-save
\* hook. reminderTimes is the sequence of the body's reminder times, or Absent.
NewEvent(userId, start, end, reminderTimes) ==
  LET times == IF reminderTimes = Absent THEN <<DefaultReminderTime>> ELSE reminderTimes[1]
  IN [user |-> userId, start |-> start, end |-> end,
      reminders |-> [i \in DOMAIN times |-> NewReminder(times[i])]]

\* The store after event.save() of a new document.
Saved(ev) == IF PreSaveValid(ev) THEN [events EXCEPT ![NextId] = ev] ELSE events
SaveStatus(ev) == IF PreSaveValid(ev) THEN 201 ELSE 500

\* The handlers below are the store's part of a request; its answer is
\* their status.
PostEvent(userId, start, end, reminderTimes) ==
  /\ FreshIds # {}
  /\ events' = Saved(NewEvent(userId, start, end, reminderTimes))
PostStatus(userId, start, end, reminderTimes) ==
  SaveStatus(NewEvent(userId, start, end, reminderTimes))

\* updates.reminders = (updates.reminders || event.reminders).map(r => ({...r, sent: false})).
\* The body's reminders are plain objects and keep their time. The stored
\* reminders are subdocuments: what their spread keeps of time depends on
\* the library, so the stored time is the old one or the schema default.
ResetReminders(ev, reminderTimes) ==
  IF reminderTimes # Absent
  THEN { [i \in DOMAIN reminderTimes[1] |-> NewReminder(reminderTimes[1][i])] }
  ELSE { rs \in [DOMAIN ev.reminders -> [time : {DefaultReminderTime} \cup
                                                 { ev.reminders[i].time : i \in DOMAIN ev.reminders },
                                          sent : {FALSE}]] :
           \A i \in DOMAIN rs : rs[i].time \in {ev.reminders[i].time, DefaultReminderTime} }

\* "Reset reminder sent status if time changed": if (updates.start || updates.reminders)
ResetsReminders(start, reminderTimes) == start # Absent \/ reminderTimes # Absent

\* Event.findOne({_id: req.params.id, user: req.userId}) finds a document.
Owned(userId, id) == Stored(id) /\ events[id].user = userId

\* The stores findByIdAndUpdate(id, {$set: updates}) can leave: it runs no
\* save hook. start, end and reminderTimes are the body's fields, Absent
\* when undefined.
Updated(id, start, end, reminderTimes) ==
  { [events EXCEPT ![id] =
       [user |-> @.user,
        start |-> IF start = Absent THEN @.start ELSE start[1],
        end |-> IF end = Absent THEN @.end ELSE end[1],
        reminders |-> rs]] :
    rs \in IF ResetsReminders(start, reminderTimes)
           THEN ResetReminders(events[id], reminderTimes)
           ELSE {events[id].reminders} }

\* PUT /api/events/:id
PutEvent(userId, id, start, end, reminderTimes) ==
  IF ~Owned(userId, id)
  THEN UNCHANGED events
  ELSE events' \in Updated(id, start, end, reminderTimes)
PutStatus(userId, id) == IF ~Owned(userId, id) THEN 404 ELSE 200

\* DELETE /api/events/:id: findOneAndDelete({_id, user})
DeleteEvent(userId, id) ==
  IF ~Owned(userId, id)
  THEN UNCHANGED events
  ELSE events' = [events EXCEPT ![id] = Deleted]
DeleteStatus(userId, id) == IF ~Owned(userId, id) THEN 404 ELSE 200

\* POST /api/events/:id/duplicate: the copy starts at newStart, or a day
\* after the original, lasts as long, and has the original's reminders
\* with sent: false.
DayUnits == 24 * 60 * UnitsPerMinute
Duplicate(ev, newStart) ==
  LET duration == ev.end - ev.start
  IN [user |-> ev.user,
      start |-> IF newStart = Absent THEN ev.start + DayUnits ELSE newStart[1],
      end |-> IF newStart = Absent THEN ev.end + DayUnits ELSE newStart[1] + duration,
      reminders |-> [i \in DOMAIN ev.reminders |-> NewReminder(ev.reminders[i].time)]]

DuplicateEvent(userId, id, newStart) ==
  IF ~Owned(userId, id)
  THEN UNCHANGED events
  ELSE /\ FreshIds # {}
       /\ events' = Saved(Duplicate(events[id], newStart))
DuplicateStatus(userId, id, newStart) ==
  IF ~Owned(userId, id) THEN 404 ELSE SaveStatus(Duplicate(events[id], newStart))

\* POST /api/todos
PostTodo(userId, dueDate, enabled) ==
  /\ FreshTodoIds # {}
  /\ todos' = [todos EXCEPT ![NextTodoId] = NewTodo(userId, dueDate, enabled)]

----------------------------------------------------------------------------
(* The reminder dispatcher: cron.schedule('* * * * *', ...) calls          *)
(* checkUpcomingEvents every minute and does not wait for the invocation   *)
(* of the minute before. An invocation advances from one awaited store     *)
(* call to the next; requests and other invocations run in between.        *)

Ticks == 1..MaxTicks
TickInstant(m) == m * UnitsPerMinute

\* The items of a sweep: a reminder of an event, a todo, or the todo query.
EventItem(id, i) == <<"event", id, i>>
TodoItem(id) == <<"todo", id, 0>>
TodoQuery == <<"todos", 0, 0>>

NotStarted == [phase |-> "not started"]
Returned == [phase |-> "returned"]
Phases == {"events", "save", "todos", "todoSave"}
Active(m) == sweeps[m].phase \in Phases

\* Event.find({start: {$gt: now}, 'reminders.sent': false})
Found(now) ==
  { id \in EventIds : /\ Stored(id)
                      /\ events[id].start > now
                      /\ \E i \in DOMAIN events[id].reminders : ~events[id].reminders[i].sent }

\* A test that leaves out the reminder whose trigger is now.
DueStrictly(ev, i, now) == now > ev.start - ev.reminders[i].time * UnitsPerMinute

\* reminderTime = event.start - reminder.time * 60 * 1000; now >= reminderTime
Due(ev, i, now) == now >= ev.start - ev.reminders[i].time * UnitsPerMinute

\* Todo.find({status: {$ne: 'completed'}, dueDate: {$gte: now, $lte: soon},
\*            'reminder.enabled': true, 'reminder.sent': {$ne: true}})
HourUnits == 60 * UnitsPerMinute
\* The query without the upper end of the window
FoundTodosNoHorizon(now) ==
  { id \in TodoIds : /\ StoredTodo(id)
                     /\ todos[id].status # "completed"
                     /\ todos[id].dueDate >= now
                     /\ todos[id].reminder.enabled
                     /\ todos[id].reminder.sent # TRUE }
FoundTodos(now) ==
  { id \in TodoIds : /\ StoredTodo(id)
                     /\ todos[id].status # "completed"
                     /\ todos[id].dueDate >= now /\ todos[id].dueDate <= now + HourUnits
                     /\ todos[id].reminder.enabled
                     /\ todos[id].reminder.sent # TRUE }

\* The reminders the event loops still notify: unsent in the invocation's
\* documents and due at its now. The loops take them in document order.
Reminders(s) ==
  UNION { { EventItem(id, i) : i \in DOMAIN s.docs[id].reminders } : id \in DOMAIN s.docs }
Pending(s) ==
  { it \in Reminders(s) : /\ ~s.docs[it[2]].reminders[it[3]].sent
                          /\ Due(s.docs[it[2]], it[3], s.now) }
PendingTodos(s) == { TodoItem(id) : id \in { t \in DOMAIN s.tdocs : ~s.tdocs[t].reminder.sent } }
Before(a, b) == a[2] < b[2] \/ (a[2] = b[2] /\ a[3] < b[3])
First(items) == CHOOSE a \in items : \A b \in items : a = b \/ Before(a, b)

\* The reminders of the store that are unsent with their trigger at or
\* before now: what a sweep at now is expected to dispatch.
StoredReminders ==
  UNION { { EventItem(id, i) : i \in DOMAIN events[id].reminders } :
          id \in { e \in EventIds : Stored(e) } }
Triggered(now) ==
  { it \in StoredReminders :
      /\ ~events[it[2]].reminders[it[3]].sent
      /\ events[it[2]].start - events[it[2]].reminders[it[3]].time * UnitsPerMinute <= now }

\* The notification documents of the two loops.
EventReminder(ev, id, i) ==
  [user |-> ev.user, type |-> "event_reminder", related |-> id, minutes |-> ev.reminders[i].time]
TodoReminder(todo, id) ==
  [user |-> todo.user, type |-> "todo_reminder", related |-> id, minutes |-> 60]

\* A room that is the same for every user
RoomOfAll(userId) == "all"

\* io.to(user._id.toString()).emit('notification', {type, notification, ...}):
\* the room is named by the user's id, which a socket joins by 'join'.
Room(userId) == userId
Emit(userId, notification) == [room |-> Room(userId), notification |-> notification]

\* A save that writes the invocation's whole reminders array.
MarkSentWholeDocument(stored, local, i) == local.reminders

\* event.reminders[i].sent = true; event.save() writes the modified path
\* reminders.i.sent of the stored document, which gains an element when
\* its array has become one shorter than the invocation's.
MarkSent(stored, local, i) ==
  IF i \in DOMAIN stored.reminders
  THEN [stored.reminders EXCEPT ![i].sent = TRUE]
  ELSE Append(stored.reminders, [time |-> DefaultReminderTime, sent |-> TRUE])

\* The invocation of tick m at the awaited call of phase: now is its
\* clock reading, docs and tdocs are the documents its queries returned,
\* cur is the item whose notification is created and not yet marked.
\* due, created and marked record what it was to do and did.
Invocation(phase, now, docs, tdocs, cur, due, created, marked) ==
  [phase |-> phase, now |-> now, docs |-> docs, tdocs |-> tdocs, cur |-> cur,
   due |-> due, created |-> created, marked |-> marked]
NoDocs == [id \in {} |-> NoEvent]

\* After the event loops: the todo loop over the documents of Todo.find,
\* and the return when there are none left.
TodoLoop(s) == IF PendingTodos(s) = {} THEN Returned ELSE [s EXCEPT !.phase = "todos"]

\* The cron tick of minute m: the invocation returns at once when
\* mongoose.connection.readyState is not 1 or Event.find rejects, or it
\* reads now and has the documents of Event.find.
CronTick(m) ==
  /\ \A n \in Ticks : sweeps[n] = NotStarted <=> n >= m
  /\ LET now == TickInstant(m)
         docs == [id \in Found(now) |-> events[id]]
     IN \/ sweeps' = [sweeps EXCEPT ![m] = Returned]
        \/ sweeps' = [sweeps EXCEPT ![m] =
             Invocation("events", now, docs, NoDocs, Absent, Triggered(now), <<>>, {})]
  /\ UNCHANGED <<events, response, todos, notifications, requests, emitted, others>>

\* Notification.create for the next pending reminder, the emit to the
\* user's room, and event.reminders[i].sent = true on the local document.
SweepCreate(m) ==
  LET s == sweeps[m] IN
  /\ s.phase = "events"
  /\ Pending(s) # {}
  /\ LET it == First(Pending(s))
         id == it[2]
         i == it[3]
     IN /\ notifications' = Create(notifications, EventReminder(s.docs[id], id, i))
        /\ emitted' = emitted \cup {Emit(s.docs[id].user, EventReminder(s.docs[id], id, i))}
        /\ sweeps' = [sweeps EXCEPT ![m] =
             [s EXCEPT !.phase = "save", !.cur = Given(it),
                       !.docs[id].reminders[i].sent = TRUE,
                       !.created = Append(@, it)]]
  /\ UNCHANGED <<events, response, todos, requests, others>>

\* event.save(): the write of reminders.i.sent, or DocumentNotFoundError
\* when the event was deleted, which the catch block takes.
SweepSave(m) ==
  LET s == sweeps[m] IN
  /\ s.phase = "save"
  /\ LET it == s.cur[1]
         id == it[2]
     IN IF Stored(id)
        THEN /\ events' = [events EXCEPT ![id].reminders = MarkSent(events[id], s.docs[id], it[3])]
             /\ sweeps' = [sweeps EXCEPT ![m] =
                  [s EXCEPT !.phase = "events", !.cur = Absent, !.marked = @ \cup {it}]]
        ELSE /\ sweeps' = [sweeps EXCEPT ![m] = Returned]
             /\ UNCHANGED events
  /\ UNCHANGED <<response, todos, notifications, requests, emitted, others>>

\* Todo.find, once the event loops are through.
SweepFindTodos(m) ==
  LET s == sweeps[m] IN
  /\ s.phase = "events"
  /\ Pending(s) = {}
  /\ LET found == FoundTodos(s.now)
     IN sweeps' = [sweeps EXCEPT ![m] =
          TodoLoop([s EXCEPT !.tdocs = [id \in found |-> todos[id]],
                             !.due = @ \cup { TodoItem(id) : id \in found }])]
  /\ UNCHANGED <<events, response, todos, notifications, requests, emitted, others>>

\* Notification.create for the next todo, the emit, and
\* todo.reminder.sent = true on the local document.
SweepTodoCreate(m) ==
  LET s == sweeps[m] IN
  /\ s.phase = "todos"
  /\ LET it == First(PendingTodos(s))
         id == it[2]
     IN /\ notifications' = Create(notifications, TodoReminder(s.tdocs[id], id))
        /\ emitted' = emitted \cup {Emit(s.tdocs[id].user, TodoReminder(s.tdocs[id], id))}
        /\ sweeps' = [sweeps EXCEPT ![m] =
             [s EXCEPT !.phase = "todoSave", !.cur = Given(it),
                       !.tdocs[id].reminder.sent = TRUE,
                       !.created = Append(@, it)]]
  /\ UNCHANGED <<events, response, todos, requests, others>>

\* todo.save(): the write of reminder.sent
SweepTodoSave(m) ==
  LET s == sweeps[m] IN
  /\ s.phase = "todoSave"
  /\ LET it == s.cur[1]
     IN /\ todos' = [todos EXCEPT ![it[2]].reminder.sent = TRUE]
        /\ sweeps' = [sweeps EXCEPT ![m] =
             TodoLoop([s EXCEPT !.cur = Absent, !.marked = @ \cup {it}])]
  /\ UNCHANGED <<events, response, notifications, requests, emitted, others>>

\* The item of the store call the invocation awaits.
Awaited(s) ==
  CASE s.phase = "events" -> IF Pending(s) = {} THEN TodoQuery ELSE First(Pending(s))
    [] s.phase = "todos" -> First(PendingTodos(s))
    [] OTHER -> s.cur[1]

\* A rejection that would leave the function and the cron callback as an
\* error, ending the invocation outside its return.
SweepFailThrows(m) ==
  /\ Active(m)
  /\ sweeps' = [sweeps EXCEPT ![m] = [phase |-> "thrown"]]
  /\ UNCHANGED <<events, response, todos, notifications, requests, emitted, others>>

\* The awaited store call rejects: try { ... } catch (error) { console.error }
\* around the whole function takes it and the function returns.
SweepFail(m) ==
  /\ Active(m)
  /\ sweeps' = [sweeps EXCEPT ![m] = Returned]
  /\ UNCHANGED <<events, response, todos, notifications, requests, emitted, others>>

----------------------------------------------------------------------------
(* The free-slot finder over the stored events: requests are handled one   *)
(* at a time, each response being delivered before the next request.       *)

\* req.user.preferences.workingHours of the requests, as <<HH, MM>> pairs
WorkingHoursChoices ==
  { [start |-> <<0, 0>>, end |-> <<0, 1>>],
    [start |-> <<0, 1>>, end |-> <<0, 2>>],
    [start |-> <<0, 0>>, end |-> <<0, 2>>],
    [start |-> <<0, 2>>, end |-> <<0, 1>>] }

\* the requests' duration parameter, in minutes
DurationValues == {-1, 0, 1, 2}
Durations == Optional(DurationValues)

\* The bodies of the requests that store events: the requesting user's
\* events take every start and end, another user's events one.
Requester == "u1"
EventInputs ==
  { [user |-> Requester, start |-> s, end |-> e] : s \in Instants, e \in Instants }
  \cup { [user |-> "u2", start |-> 1, end |-> 3] }

\* PUT bodies that move an event: a new start, or a new end.
MoveInputs ==
  { [start |-> Given(s), end |-> Absent] : s \in Instants }
  \cup { [start |-> Absent, end |-> Given(e)] : e \in Instants }

\* res.json(...) / res.status(...).json(...) has answered the request.
Deliver ==
  /\ response # NoResponse
  /\ response' = NoResponse
  /\ UNCHANGED <<events, dispatcher>>

\* Before the first request: no calendar, no request being handled.
MaxCalendars == 1
MaxSessions == 2
MaxDistractions == 1
MaxInFlight == 2
maxHistorySize == 3
CalendarIds == 1..MaxCalendars
NoCalendar == [doc |-> "none"]
DeletedCalendar == [doc |-> "deleted"]
SessionIds == 1..MaxSessions
NoSession == [doc |-> "none"]
\* focusStats: {totalFocusTime: default 0, sessionsCompleted: default 0}
NoFocusStats == [totalFocusTime |-> 0, sessionsCompleted |-> 0]
InitOthers ==
  /\ calendars = [c \in CalendarIds |-> NoCalendar]
  /\ handlers = {}
  /\ emitted = {}
  /\ read = << >>
  /\ sessions = [id \in SessionIds |-> NoSession]
  /\ focusStats = [u \in Users |-> NoFocusStats]
  /\ undoStack = << >>
  /\ redoStack = << >>

Init ==
  /\ InitOthers
  /\ events = [id \in EventIds |-> NoEvent]
  /\ response = NoResponse
  /\ todos = [id \in TodoIds |-> NoTodo]
  /\ notifications = NoNotifications
  /\ sweeps = [m \in Ticks |-> NotStarted]
  /\ requests = 0

\* No request is being answered.
Idle == response = NoResponse

SlotsPost ==
  \E b \in EventInputs :
    /\ Idle
    /\ PostEvent(b.user, b.start, b.end, Given(<<>>))
    /\ response' = Reply("post", PostStatus(b.user, b.start, b.end, Given(<<>>)))
    /\ UNCHANGED dispatcher

SlotsPut ==
  \E id \in EventIds, b \in MoveInputs :
    /\ Idle
    /\ PutEvent(Requester, id, b.start, b.end, Absent)
    /\ response' = Reply("put", PutStatus(Requester, id))
    /\ UNCHANGED dispatcher

SlotsGet ==
  \E wh \in WorkingHoursChoices, d \in Durations :
    Idle /\ GetFreeSlots(Requester, wh, d) /\ UNCHANGED dispatcher

NextSlots == SlotsPost \/ SlotsPut \/ SlotsGet \/ Deliver

SpecSlots == Init /\ [][NextSlots]_vars

----------------------------------------------------------------------------
(* The reminder dispatcher with the requests that change its stores. The   *)
(* requests' answers are left out of the state.                            *)

\* Events start a minute after the first tick or after the last, and end
\* after the last start; todos are due at the last tick.
Starts == { TickInstant(2), TickInstant(MaxTicks + 1) }
LastEnd == TickInstant(MaxTicks + 1) + 1
ReminderBodies == { Given(<<15>>), Given(<<15, 1>>) }
PutBodies ==
  { [start |-> Given(t), end |-> Absent, reminders |-> Absent] : t \in Starts }
  \cup { [start |-> Absent, end |-> Given(LastEnd + 1), reminders |-> Absent] }
  \cup { [start |-> Absent, end |-> Absent, reminders |-> r] : r \in ReminderBodies }

\* The request is served, and counted when it changed a store.
Served ==
  /\ requests < MaxRequests
  /\ requests' = IF events' = events /\ todos' = todos THEN requests ELSE requests + 1
  /\ UNCHANGED <<response, notifications, sweeps, emitted, others>>

EventsPost ==
  \E t \in Starts, r \in {Absent} \cup ReminderBodies :
    PostEvent(Requester, t, LastEnd, r) /\ UNCHANGED todos /\ Served

EventsPut ==
  \E u \in Users, id \in EventIds, b \in PutBodies :
    PutEvent(u, id, b.start, b.end, b.reminders) /\ UNCHANGED todos /\ Served

EventsDelete == \E u \in Users, id \in EventIds : DeleteEvent(u, id) /\ UNCHANGED todos /\ Served

EventsDuplicate ==
  \E u \in Users, id \in EventIds, t \in {Absent, Given(TickInstant(MaxTicks + 1))} :
    DuplicateEvent(u, id, t) /\ UNCHANGED todos /\ Served

TodosPost ==
  \E enabled \in BOOLEAN :
    PostTodo("u2", TickInstant(MaxTicks), enabled) /\ UNCHANGED events /\ Served

Tick == \E m \in Ticks : CronTick(m)
Next ==
  \/ EventsPost \/ EventsPut \/ EventsDelete \/ EventsDuplicate \/ TodosPost
  \/ Tick
  \/ \E m \in Ticks : SweepCreate(m)
  \/ \E m \in Ticks : SweepSave(m)
  \/ \E m \in Ticks : SweepFindTodos(m)
  \/ \E m \in Ticks : SweepTodoCreate(m)
  \/ \E m \in Ticks : SweepTodoSave(m)
  \/ \E m \in Ticks : SweepFail(m)

Spec == Init /\ [][Next]_vars

\* The dispatcher when no store call fails and events are only created.
NextSweeps ==
  \/ EventsPost \/ TodosPost
  \/ Tick
  \/ \E m \in Ticks : SweepCreate(m)
  \/ \E m \in Ticks : SweepSave(m)
  \/ \E m \in Ticks : SweepFindTodos(m)
  \/ \E m \in Ticks : SweepTodoCreate(m)
  \/ \E m \in Ticks : SweepTodoSave(m)

SpecSweeps == Init /\ [][NextSweeps]_vars

----------------------------------------------------------------------------
(* Properties of the free-slot finder *)

\* The response is a free-slot list (status 200 with freeSlots).
SlotsAnswered == response.route = "free-slots"

\* The stored events of a user.
UserEvents(userId) == { id \in EventIds : Stored(id) /\ events[id].user = userId }

\* Instant t lies in the event's interval [start, end).
EventCovers(id, t) == events[id].start <= t /\ t < events[id].end

\* Instant t lies in the slot's interval [start, end).
SlotCovers(slot, t) == slot.start <= t /\ t < slot.end

\* The instants [dayStart, dayEnd) of the response's window.
AllInstants == 0..(MaxInstant + 1)
Window == { t \in AllInstants : response.dayStart <= t /\ t < response.dayEnd }

SlotIndexes == DOMAIN response.freeSlots
SlotsCovering(t) == { k \in SlotIndexes : SlotCovers(response.freeSlots[k], t) }
EventsCovering(t) == { id \in UserEvents(response.user) : EventCovers(id, t) }

\* C2: no returned free slot overlaps the interval [start, end) of any
\* event of the requesting user, whatever the events (overlapping, nested,
\* back to back, reaching outside the window).
C2_NoSlotOverlapsEvent ==
  SlotsAnswered =>
    \A k \in SlotIndexes : \A id \in UserEvents(response.user) :
      LET slot == response.freeSlots[k]
      IN ~(/\ Max(slot.start, events[id].start) < Min(slot.end, events[id].end))

\* Two events whose intervals share an instant.
EventsOverlap(a, b) ==
  Max(events[a].start, events[b].start) < Min(events[a].end, events[b].end)

\* C2 witness: slots were returned for a user with two overlapping events,
\* one of them nested in the other or reaching past the window's end.
C2_Witness ==
  /\ SlotsAnswered
  /\ response.freeSlots # <<>>
  /\ \E a, b \in UserEvents(response.user) :
       /\ a # b
       /\ EventsOverlap(a, b)
       /\ events[a].start < events[b].start
       /\ events[b].end < events[a].end
       /\ events[a].end > response.dayEnd

\* The events of the requesting user are proper intervals (start < end)
\* inside the window, no two of them sharing an instant.
EventsDisjointInWindow ==
  /\ SlotsAnswered
  /\ \A id \in UserEvents(response.user) :
       /\ response.dayStart <= events[id].start
       /\ events[id].start < events[id].end
       /\ events[id].end <= response.dayEnd
  /\ \A a, b \in UserEvents(response.user) : a # b => ~EventsOverlap(a, b)

\* How many slots and events of the user instant t lies in.
Coverage(t) == Cardinality(SlotsCovering(t)) + Cardinality(EventsCovering(t))

\* The maximal event-free gap around a free instant t of the window.
SetMax(S) == CHOOSE x \in S : \A y \in S : y <= x
SetMin(S) == CHOOSE x \in S : \A y \in S : x <= y
GapStart(t) ==
  SetMax({response.dayStart} \cup
         { events[id].end : id \in { e \in UserEvents(response.user) :
                                       events[e].start < events[e].end /\ events[e].end <= t } })
GapEnd(t) ==
  SetMin({response.dayEnd} \cup
         { events[id].start : id \in { e \in UserEvents(response.user) :
                                         events[e].start < events[e].end /\ events[e].start > t } })

\* C7 as claimed: for pairwise non-overlapping events inside the working
\* hours, every instant of the window lies in exactly one free slot or one
\* event.
C7_ExactCover ==
  EventsDisjointInWindow => \A t \in Window : Coverage(t) = 1

\* C7 as amended: for such events, every instant of the window lies in
\* exactly one free slot or one event, or in neither and then in a gap
\* shorter than the minimum duration.
C7_CoverExceptShortGaps ==
  EventsDisjointInWindow =>
    \A t \in Window :
      \/ Coverage(t) = 1
      \/ /\ Coverage(t) = 0
         /\ GapEnd(t) - GapStart(t) < response.duration * UnitsPerMinute

\* C7 witness: an event inside the window, a slot returned next to it, and
\* an instant left out because its gap is too short.
C7_Witness ==
  /\ EventsDisjointInWindow
  /\ UserEvents(response.user) # {}
  /\ response.freeSlots # <<>>
  /\ \E t \in Window : Coverage(t) = 0

\* C8: the slots are in strictly chronological order, pairwise disjoint,
\* each with start < end, each inside [dayStart, dayEnd].
C8_SlotsOrderedInWindow ==
  SlotsAnswered =>
    /\ \A k \in SlotIndexes :
         LET slot == response.freeSlots[k]
         IN /\ slot.start < slot.end
            /\ response.dayStart <= slot.start
            /\ slot.end <= response.dayEnd
    /\ \A k, l \in SlotIndexes :
         k < l => response.freeSlots[k].end <= response.freeSlots[l].start

\* Every stored event of the requesting user passed the save hook's test.
UserEventsValid == \A id \in UserEvents(response.user) : PreSaveValid(events[id])

\* C8 holds of every response computed over events with end > start.
C8_OverValidEvents == (SlotsAnswered /\ UserEventsValid) => C8_SlotsOrderedInWindow

\* [a, b) is a maximal event-free gap of the window.
Free(t) == EventsCovering(t) = {}
MaximalGap(a, b) ==
  /\ response.dayStart <= a /\ a < b /\ b <= response.dayEnd
  /\ \A t \in Window : (a <= t /\ t < b) => Free(t)
  /\ a = response.dayStart \/ ~Free(a - 1)
  /\ b = response.dayEnd \/ ~Free(b)

\* C9: every slot lasts at least the minimum duration, and every maximal
\* event-free gap of the window that lasts at least the minimum (exactly
\* the minimum included) is returned.
C9_SlotsAreTheLongGaps ==
  SlotsAnswered =>
    /\ \A k \in SlotIndexes :
         LET slot == response.freeSlots[k]
         IN slot.end - slot.start >= response.duration * UnitsPerMinute
    /\ \A a, b \in AllInstants :
         (MaximalGap(a, b) /\ b - a >= response.duration * UnitsPerMinute) =>
           \E k \in SlotIndexes :
             response.freeSlots[k].start = a /\ response.freeSlots[k].end = b

\* C9 holds of every response computed over events with end > start.
C9_OverValidEvents == (SlotsAnswered /\ UserEventsValid) => C9_SlotsAreTheLongGaps

\* The durations a request can ask for, the default included.
EffectiveDurations == DurationValues \cup {DefaultDuration}
Range(seq) == { seq[k] : k \in DOMAIN seq }

----------------------------------------------------------------------------
(* Properties of the reminder dispatcher *)

ActiveSweeps == { m \in Ticks : Active(m) }

\* C6: at most one sweep is active at any time: a cron tick never starts
\* checkUpcomingEvents while an earlier invocation still awaits its store
\* calls.
C6_AtMostOneSweepActive == Cardinality(ActiveSweeps) <= 1

\* C1: when every mark-sent write succeeds, the sweeps create at most one
\* event_reminder notification per event reminder, however many sweeps run.
C1_AtMostOneNotificationPerReminder ==
  \A doc \in DOMAIN notifications :
    doc.type = "event_reminder" => notifications[doc] <= 1

\* The items the invocation has yet to notify, beside the one it awaits.
Remaining(s) ==
  (Pending(s) \cup IF s.phase \in {"events", "save"}
                   THEN { TodoItem(id) : id \in FoundTodos(s.now) }
                   ELSE PendingTodos(s))
  \ {Awaited(s)}

\* C5: a failure for one item does not abort the sweep: when an invocation
\* ends, no other eligible event reminder or todo is left unprocessed.
C5_FailureDoesNotAbortSweep ==
  [][\A m \in Ticks : (Active(m) /\ ~Active(m)') => Remaining(sweeps[m]) = {}]_vars

\* The invocation of tick m returns from the end of the function.
Completes(m) == (SweepFindTodos(m) \/ SweepTodoSave(m)) /\ ~Active(m)'

Count(seq, x) == Cardinality({ k \in DOMAIN seq : seq[k] = x })

\* The invocation created exactly one notification for the reminder and
\* wrote its sent flag.
Dispatched(s, it) == Count(s.created, it) = 1 /\ it \in s.marked

\* The reminders triggered at the invocation's tick.
DueReminders(s) == { it \in s.due : it[1] = "event" }

\* C3: a sweep that runs without store failure creates exactly one
\* notification for every reminder that was unsent with its trigger at or
\* before now at the tick, and marks it sent.
C3_TriggeredReminderDispatched ==
  [][\A m \in Ticks : Completes(m) =>
       \A it \in DueReminders(sweeps[m]) : Dispatched(sweeps[m], it)]_vars

\* C3, amended: ... for every such reminder of an event that starts after
\* now; the reminders of the events that have started are not dispatched.
C3_UpcomingTriggeredReminderDispatched ==
  [][\A m \in Ticks : Completes(m) =>
       \A it \in DueReminders(sweeps[m]) :
         IF it[2] \in DOMAIN sweeps[m].docs
         THEN Dispatched(sweeps[m], it)
         ELSE Count(sweeps[m].created, it) = 0]_vars

\* An invocation at the end of its event loops that has dispatched a
\* triggered reminder and left one of a started event.
C3_Witness ==
  \E m \in Ticks :
    /\ sweeps[m].phase = "events"
    /\ Pending(sweeps[m]) = {}
    /\ \E it \in DueReminders(sweeps[m]) : Dispatched(sweeps[m], it)
    /\ \E it \in DueReminders(sweeps[m]) : it[2] \notin DOMAIN sweeps[m].docs

\* Reminder i of event id is sent, and unsent after the step.
SentReverts(id, i) ==
  /\ Stored(id)
  /\ i \in DOMAIN events[id].reminders
  /\ events[id].reminders[i].sent
  /\ events'[id] \notin {NoEvent, Deleted}
  /\ i \in DOMAIN events'[id].reminders
  /\ ~events'[id].reminders[i].sent

ReminderIndexes == 1..2

\* C4: once a stored reminder has sent = true it never returns to
\* sent = false, whatever sweeps and event requests follow.
C4_SentNeverReverts ==
  [][\A id \in EventIds, i \in ReminderIndexes : ~SentReverts(id, i)]_vars

\* C4, amended: a stored reminder's sent flag returns to false only by a
\* PUT of its event whose body has start or reminders.
C4_SentRevertsOnlyByUpdate ==
  [][\A id \in EventIds, i \in ReminderIndexes :
       SentReverts(id, i) =>
         \E u \in Users, b \in PutBodies :
           /\ b.start # Absent \/ b.reminders # Absent
           /\ PutEvent(u, id, b.start, b.end, b.reminders)]_vars

\* An invocation has written a reminder's sent flag, and the stored
\* reminder is unsent again.
C4_Witness ==
  \E m \in ActiveSweeps :
    \E it \in sweeps[m].marked :
      /\ it[1] = "event"
      /\ Stored(it[2])
      /\ it[3] \in DOMAIN events[it[2]].reminders
      /\ ~events[it[2]].reminders[it[3]].sent

\* The reminders the invocation has created a notification for.
CreatedReminders(s) == { s.created[k] : k \in { j \in DOMAIN s.created : s.created[j][1] = "event" } }

\* At the invocation's tick the reminder was unsent, its trigger was at or
\* before now, and its event started after now.
EligibleAtTick(s, it) ==
  /\ it \in s.due
  /\ it[2] \in DOMAIN s.docs
  /\ s.docs[it[2]].start > s.now
  /\ s.now >= s.docs[it[2]].start - s.docs[it[2]].reminders[it[3]].time * UnitsPerMinute

\* Every notification of an invocation is for a reminder eligible at its
\* tick: none is created before the trigger instant.
NotifiesOnlyEligible ==
  \A m \in ActiveSweeps : \A it \in CreatedReminders(sweeps[m]) : EligibleAtTick(sweeps[m], it)

\* C11: a sweep notifies a reminder only if at its now the reminder is
\* unsent, the event starts after now and the trigger has come, and the
\* sweep of the next minute creates no second notification for it.
C11_NotifiesEligibleWithoutDuplicate ==
  /\ NotifiesOnlyEligible
  /\ \A m \in ActiveSweeps :
       \A it \in CreatedReminders(sweeps[m]) :
         notifications[EventReminder(sweeps[m].docs[it[2]], it[2], it[3])] = 1

----------------------------------------------------------------------------
(* Todo requests and the dispatcher over todos alone *)

\* PUT /api/todos/:id: Todo.findOne({_id, user}) answers 404 for a todo
\* that is absent or of another user; otherwise the given fields are
\* written by findByIdAndUpdate(id, {$set: updates}). $set of reminder
\* replaces the whole reminder object, so a body without reminder.sent
\* stores a reminder without sent, which reads as not sent.
OwnedTodo(userId, id) == StoredTodo(id) /\ todos[id].user = userId
SetReminder(body) ==
  [enabled |-> body.enabled, sent |-> IF body.sent = Absent THEN FALSE ELSE body.sent[1]]
UpdatedTodo(todo, status, dueDate, reminder) ==
  [user |-> todo.user,
   status |-> IF status = Absent THEN todo.status ELSE status[1],
   dueDate |-> IF dueDate = Absent THEN todo.dueDate ELSE dueDate[1],
   reminder |-> IF reminder = Absent THEN todo.reminder ELSE SetReminder(reminder[1])]
PutTodo(userId, id, status, dueDate, reminder) ==
  IF ~OwnedTodo(userId, id)
  THEN UNCHANGED todos
  ELSE todos' = [todos EXCEPT ![id] = UpdatedTodo(todos[id], status, dueDate, reminder)]
PutTodoStatus(userId, id) == IF ~OwnedTodo(userId, id) THEN 404 ELSE 200

\* Due dates of the requests: at the first tick, one hour after it, and
\* more than one hour after the last tick.
TodoOwner == "u2"
TodoDueDates ==
  { TickInstant(1), TickInstant(1) + HourUnits, TickInstant(MaxTicks) + HourUnits + 1 }
TodoBodies ==
  { [status |-> Given(st), dueDate |-> Absent, reminder |-> Absent] : st \in {"completed", "pending"} }
  \cup { [status |-> Absent, dueDate |-> Given(TickInstant(1) + HourUnits), reminder |-> Absent] }
  \cup { [status |-> Absent, dueDate |-> Absent,
          reminder |-> Given([enabled |-> TRUE, sent |-> s])] : s \in {Absent, Given(TRUE)} }

TodosPostDue ==
  \E d \in TodoDueDates, enabled \in BOOLEAN :
    PostTodo(TodoOwner, d, enabled) /\ UNCHANGED events /\ Served

TodosPut ==
  \E u \in Users, id \in TodoIds, b \in TodoBodies :
    PutTodo(u, id, b.status, b.dueDate, b.reminder) /\ UNCHANGED events /\ Served

\* With no stored event the event loops have nothing to do.
NextTodos ==
  \/ TodosPostDue \/ TodosPut
  \/ Tick
  \/ \E m \in Ticks : SweepFindTodos(m)
  \/ \E m \in Ticks : SweepTodoCreate(m)
  \/ \E m \in Ticks : SweepTodoSave(m)
  \/ \E m \in Ticks : SweepFail(m)

SpecTodos == Init /\ [][NextTodos]_vars

----------------------------------------------------------------------------
(* Properties of the todo loop *)

\* The conditions under which a todo is to be reminded of at now
TodoEligible(doc, now) ==
  /\ doc.status # "completed"
  /\ doc.dueDate >= now /\ doc.dueDate <= now + HourUnits
  /\ doc.reminder.enabled
  /\ doc.reminder.sent # TRUE

\* C12: an invocation creates a todo_reminder notification for a todo only
\* if the todo it read is not completed, is due between the invocation's
\* now and one hour later (both ends included), has its reminder enabled
\* and not sent; a todo due later, past due, completed or disabled gets none.
C12_TodoNotifiedOnlyIfEligible ==
  [][\A m \in Ticks :
       SweepTodoCreate(m) =>
         \E id \in DOMAIN sweeps[m].tdocs :
           /\ sweeps'[m].cur = Given(TodoItem(id))
           /\ TodoEligible(sweeps[m].tdocs[id], sweeps[m].now)
           /\ notifications' = Create(notifications, TodoReminder(sweeps[m].tdocs[id], id))]_vars

\* An invocation has notified of one todo and passed over another that
\* is due more than one hour after its now.
C12_Witness ==
  \E m \in ActiveSweeps :
    /\ sweeps[m].phase = "todoSave"
    /\ \E t \in TodoIds :
         /\ StoredTodo(t)
         /\ t \notin DOMAIN sweeps[m].tdocs
         /\ todos[t].status # "completed"
         /\ todos[t].reminder.enabled /\ ~todos[t].reminder.sent
         /\ todos[t].dueDate > sweeps[m].now + HourUnits
         /\ \A doc \in DOMAIN notifications : doc.related # t

\* Todo.find of an invocation returns no todo whose stored reminder is sent.
SentTodoNeverSelected ==
  [][\A m \in Ticks :
       (SweepFindTodos(m) /\ Active(m)') =>
         \A id \in DOMAIN sweeps'[m].tdocs : ~todos[id].reminder.sent]_vars

\* C13: whatever the sequence of invocations and todo updates, no todo
\* has more than one todo_reminder notification.
C13_AtMostOneTodoReminder ==
  \A doc \in DOMAIN notifications :
    doc.type = "todo_reminder" => notifications[doc] <= 1

----------------------------------------------------------------------------
(* Properties of the dispatcher under store failures *)

\* The number of notification documents equal to doc
Notified(doc) == IF doc \in DOMAIN notifications THEN notifications[doc] ELSE 0

\* The save of the invocation's current item rejects.
MarkFails(m) == SweepFail(m) /\ sweeps[m].phase \in {"save", "todoSave"}

\* The stored sent flag of an item, FALSE when its document is gone
StoredSent(evs, tds, it) ==
  IF it[1] = "event"
  THEN /\ evs[it[2]] \notin {NoEvent, Deleted}
       /\ it[3] \in DOMAIN evs[it[2]].reminders
       /\ evs[it[2]].reminders[it[3]].sent
  ELSE tds[it[2]] # NoTodo /\ tds[it[2]].reminder.sent

\* The invocation of tick m starts and has the documents of Event.find.
Begins(m) == sweeps[m] = NotStarted /\ Active(m)'

Unreachable(m) ==
  \/ sweeps[m] = NotStarted /\ sweeps'[m] = Returned
  \/ SweepFail(m)

----------------------------------------------------------------------------
(* Properties of the free-slot request's input checks *)

\* C16: a free-slot request whose minimum duration is 0 or less is
\* rejected and answered with no slot list; a request without a duration
\* is answered for 60 minutes.
C16_NonPositiveDurationRejected ==
  [][\A wh \in WorkingHoursChoices, d \in Durations :
       GetFreeSlots(Requester, wh, d) =>
         /\ d = Absent => response'.duration = DefaultDuration
         /\ (d # Absent /\ d[1] <= 0) =>
              response'.status # 200 /\ "freeSlots" \notin DOMAIN response']_vars

\* C17: a free-slot request for working hours whose end is not after
\* their start is rejected and not answered with a slot list.
C17_EmptyWindowRejected ==
  (SlotsAnswered /\ response.dayEnd <= response.dayStart) =>
    response.status # 200 /\ "freeSlots" \notin DOMAIN response

\* The query of the answered request found no event of the user.
NoEventInWindow == MatchingEvents(response.user, response.dayStart, response.dayEnd) = {}

\* The result for a window without events: the whole window when it is
\* at least as long as the minimum duration.
WholeWindow ==
  IF response.dayEnd - response.dayStart >= response.duration * UnitsPerMinute
  THEN << Slot(response.dayStart, response.dayEnd) >>
  ELSE << >>

\* C18: when no event overlaps the working window, the answer is the one
\* slot [dayStart, dayEnd) if the window is at least as long as the
\* minimum duration and the empty list otherwise, never an error.
C18_NoEventsWholeWindow ==
  (SlotsAnswered /\ NoEventInWindow) =>
    response.status = 200 /\ response.freeSlots = WholeWindow

\* C18 holds of the requests with a window that ends after its start.
C18_OverProperWindows ==
  (SlotsAnswered /\ response.dayEnd > response.dayStart) => C18_NoEventsWholeWindow

\* The answers a second request with the same inputs can get from the
\* unchanged store: one for each order in which the store may list the
\* events of equal start.
RepeatedAnswers ==
  { FindFreeSlots(order, response.dayStart, response.dayEnd, response.duration) :
      order \in SortedByStart(MatchingEvents(response.user, response.dayStart, response.dayEnd)) }

\* C19: a second free-slot request with the same inputs and no write in
\* between gets the same slot list, in whatever order the store lists
\* the events that share a start.
C19_SameInputsSameSlots ==
  SlotsAnswered => RepeatedAnswers = {response.freeSlots}

\* C19 holds of every response computed over events with end > start.
C19_OverValidEvents == (SlotsAnswered /\ UserEventsValid) => C19_SameInputsSameSlots

\* Two events of equal start, each with end > start, are in the window of
\* the answered request.
C19_TiedValidEvents ==
  /\ SlotsAnswered /\ UserEventsValid
  /\ \E a, b \in MatchingEvents(response.user, response.dayStart, response.dayEnd) :
       a # b /\ events[a].start = events[b].start /\ events[a].end # events[b].end

----------------------------------------------------------------------------
(* The requests that store events *)

\* POST /api/todos/:id/convert-to-event: 404 for a todo that is absent or
\* of another user, or when the user has no calendar; otherwise
\* new Event({..., start, end, user}) without reminders and event.save(),
\* refused by the pre-save hook. hasCalendar is the outcome of Calendar.findOne.
ConvertToEvent(userId, id, start, end, hasCalendar) ==
  IF ~OwnedTodo(userId, id) \/ ~hasCalendar
  THEN UNCHANGED events
  ELSE /\ FreshIds # {}
       /\ events' = Saved(NewEvent(userId, start, end, Given(<<>>)))
ConvertStatus(userId, id, start, end, hasCalendar) ==
  IF ~OwnedTodo(userId, id) \/ ~hasCalendar
  THEN 404
  ELSE SaveStatus(NewEvent(userId, start, end, Given(<<>>)))

\* start and end of the convert requests: end after, at and before start
ConvertInputs == { [start |-> 1, end |-> 3], [start |-> 2, end |-> 2], [start |-> 3, end |-> 1] }

StorePostTodo ==
  /\ Idle
  /\ PostTodo(Requester, TickInstant(1), FALSE)
  /\ response' = Reply("post-todo", 201)
  /\ UNCHANGED <<events, notifications, sweeps, requests, emitted, others>>

StoreDuplicate ==
  \E id \in EventIds, t \in {Absent, Given(1)} :
    /\ Idle
    /\ DuplicateEvent(Requester, id, t)
    /\ response' = Reply("duplicate", DuplicateStatus(Requester, id, t))
    /\ UNCHANGED dispatcher

StoreConvert ==
  \E u \in Users, id \in TodoIds, b \in ConvertInputs, hasCalendar \in BOOLEAN :
    /\ Idle
    /\ ConvertToEvent(u, id, b.start, b.end, hasCalendar)
    /\ response' = Reply("convert", ConvertStatus(u, id, b.start, b.end, hasCalendar))
    /\ UNCHANGED dispatcher

NextStore ==
  \/ SlotsPost \/ SlotsPut \/ StoreDuplicate \/ StorePostTodo \/ StoreConvert
  \/ Deliver

SpecStore == Init /\ [][NextStore]_vars

\* C20: after any sequence of create, update, duplicate and
\* convert-todo-to-event requests every stored event ends after its start.
C20_StoredEventsEndAfterStart ==
  \A id \in EventIds : Stored(id) => events[id].end > events[id].start

\* Every request but the update stores only events that end after their
\* start, and answers 500 with the store unchanged otherwise.
C20_ExceptUpdate ==
  [][~SlotsPut =>
       /\ \A id \in EventIds :
            (events'[id] # events[id] /\ events'[id] \notin {NoEvent, Deleted})
              => events'[id].end > events'[id].start
       /\ response'.route \in {"post", "duplicate", "convert"} /\ response'.status = 500
            => events' = events]_vars

----------------------------------------------------------------------------
(* Calendars: their creation, sharing and deletion, and the creation of    *)
(* events in them. DELETE /api/calendars/:id and POST /api/events await    *)
(* several store calls; other requests run between those calls.            *)

StoredCalendar(c) == calendars[c] \notin {NoCalendar, DeletedCalendar}
FreshCalendarIds == { c \in CalendarIds : calendars[c] = NoCalendar }
NextCalendarId == CHOOSE c \in FreshCalendarIds : \A other \in FreshCalendarIds : c <= other

\* POST /api/calendars: new Calendar({name, ..., user}) and calendar.save();
\* isDefault defaults to false and shared.sharedWith to [].
NewCalendar(userId) == [user |-> userId, isDefault |-> FALSE, sharedWith |-> {}]
PostCalendar(userId) ==
  /\ FreshCalendarIds # {}
  /\ calendars' = [calendars EXCEPT ![NextCalendarId] = NewCalendar(userId)]

\* POST /api/calendars/:id/share: Calendar.findOne({_id, user}) answers 404
\* for a calendar that is absent or of another user, sharing with oneself
\* answers 400; otherwise the entry of the user gets the permission, or a
\* new entry is pushed, and calendar.save().
Permissions == {"view", "edit"}
OwnedCalendar(userId, c) == StoredCalendar(c) /\ calendars[c].user = userId
Shared(sharedWith, userId, permission) ==
  { s \in sharedWith : s.user # userId } \cup { [user |-> userId, permission |-> permission] }
ShareCalendar(userId, c, userToShare, permission) ==
  IF ~OwnedCalendar(userId, c) \/ userToShare = userId
  THEN UNCHANGED calendars
  ELSE calendars' = [calendars EXCEPT ![c].sharedWith = Shared(@, userToShare, permission)]

\* Calendar.findOne({_id: calendar, $or: [{user: req.userId},
\*                   {'shared.sharedWith.user': req.userId}]}) of POST /api/events
FindsCalendar(userId, c) ==
  /\ StoredCalendar(c)
  /\ \/ calendars[c].user = userId
     \/ \E s \in calendars[c].sharedWith : s.user = userId

\* new Event({..., calendar, user: req.userId}) of POST /api/events
NewEventIn(c, userId, start, end, reminderTimes) ==
  NewEvent(userId, start, end, reminderTimes) @@ [calendar |-> c]

\* The requests in flight, each at its next awaited store call.
PostEventHandler(userId, c, calendarDoc) ==
  [route |-> "POST /api/events", user |-> userId, calendar |-> c,
   calendarDoc |-> calendarDoc, next |-> "event.save"]
DeleteCalendarHandler(userId, c, next) ==
  [route |-> "DELETE /api/calendars/:id", user |-> userId, calendar |-> c, next |-> next]
Handling(route) == { h \in handlers : h.route = route }

\* POST /api/events up to its first store call: 404 without a calendar.
PostFindCalendar(userId, c) ==
  /\ Handling("POST /api/events") = {}
  /\ IF FindsCalendar(userId, c)
     THEN handlers' = handlers \cup {PostEventHandler(userId, c, calendars[c])}
     ELSE UNCHANGED handlers
  /\ UNCHANGED <<events, calendars>>

\* event.save(), and the answer 201
PostSaveEvent(h) ==
  /\ h.route = "POST /api/events"
  /\ FreshIds # {}
  /\ events' = Saved(NewEventIn(h.calendar, h.user, 1, 3, Absent))
  /\ handlers' = handlers \ {h}
  /\ UNCHANGED calendars

\* DELETE /api/calendars/:id up to its first store call: 404 for a
\* calendar that is absent or of another user, 400 for the default one.
DeleteFindCalendar(userId, c) ==
  /\ Handling("DELETE /api/calendars/:id") = {}
  /\ IF OwnedCalendar(userId, c) /\ ~calendars[c].isDefault
     THEN handlers' = handlers \cup {DeleteCalendarHandler(userId, c, "Event.deleteMany")}
     ELSE UNCHANGED handlers
  /\ UNCHANGED <<events, calendars>>

\* Event.deleteMany({calendar: req.params.id})
InCalendar(id, c) == Stored(id) /\ "calendar" \in DOMAIN events[id] /\ events[id].calendar = c
DeleteEventsOfCalendar(h) ==
  /\ h.route = "DELETE /api/calendars/:id"
  /\ h.next = "Event.deleteMany"
  /\ events' = [id \in EventIds |-> IF InCalendar(id, h.calendar) THEN Deleted ELSE events[id]]
  /\ handlers' = (handlers \ {h})
                   \cup {DeleteCalendarHandler(h.user, h.calendar, "Calendar.findByIdAndDelete")}
  /\ UNCHANGED calendars

\* Calendar.findByIdAndDelete(req.params.id), and the answer 200
DeleteCalendarDocument(h) ==
  /\ h.route = "DELETE /api/calendars/:id"
  /\ h.next = "Calendar.findByIdAndDelete"
  /\ calendars' = [calendars EXCEPT ![h.calendar] = DeletedCalendar]
  /\ handlers' = handlers \ {h}
  /\ UNCHANGED events

\* The rest of the state is left alone by the calendar requests.
CalendarFrame ==
  UNCHANGED <<response, todos, notifications, sweeps, requests, emitted, read, focus, history>>

CalendarsPost == PostCalendar(Requester) /\ UNCHANGED <<events, handlers>> /\ CalendarFrame
CalendarsShare ==
  \E u \in Users, c \in CalendarIds, to \in Users, p \in Permissions :
    ShareCalendar(u, c, to, p) /\ UNCHANGED <<events, handlers>> /\ CalendarFrame
CalendarsDelete ==
  \E u \in Users, c \in CalendarIds : DeleteFindCalendar(u, c) /\ CalendarFrame
CalendarsDeleteEvents == \E h \in handlers : DeleteEventsOfCalendar(h) /\ CalendarFrame
CalendarsDeleteDocument == \E h \in handlers : DeleteCalendarDocument(h) /\ CalendarFrame
CalendarsPostEvent ==
  \E u \in Users, c \in CalendarIds : PostFindCalendar(u, c) /\ CalendarFrame
CalendarsSaveEvent == \E h \in handlers : PostSaveEvent(h) /\ CalendarFrame

NextCalendars ==
  \/ CalendarsPost \/ CalendarsShare
  \/ CalendarsDelete \/ CalendarsDeleteEvents \/ CalendarsDeleteDocument
  \/ CalendarsPostEvent \/ CalendarsSaveEvent

SpecCalendars == Init /\ [][NextCalendars]_vars

\* C21: once a calendar is deleted no stored event references it, the
\* events of requests that ran during the deletion included.
C21_NoEventOfDeletedCalendar ==
  \A id \in EventIds, c \in CalendarIds :
    InCalendar(id, c) => calendars[c] # DeletedCalendar

\* The user may create events in a calendar with this document: the
\* owner, or a user it is shared with under the permission edit.
MayEdit(calendarDoc, userId) ==
  \/ calendarDoc.user = userId
  \/ [user |-> userId, permission |-> "edit"] \in calendarDoc.sharedWith

\* C29: an event is created in a calendar only by its owner or by a user
\* the calendar is shared with under the permission edit, never by a user
\* who holds only the permission view.
C29_OnlyEditorsCreateEvents ==
  [][\A h \in handlers :
       (PostSaveEvent(h) /\ events' # events) => MayEdit(h.calendarDoc, h.user)]_vars

----------------------------------------------------------------------------
(* Properties of the notifications' owner and room *)

\* The notification documents the step creates
CreatedByStep == { doc \in DOMAIN notifications' : notifications'[doc] > Notified(doc) }

\* The document is of an event or todo that an invocation has read, is
\* of that event's or todo's user and references it; the stored event or
\* todo, where it still exists, is of the same user.
Originating(doc) ==
  \E m \in Ticks :
    /\ Active(m)
    /\ IF doc.type = "event_reminder"
       THEN /\ doc.related \in DOMAIN sweeps[m].docs
            /\ sweeps[m].docs[doc.related].user = doc.user
            /\ Stored(doc.related) => events[doc.related].user = doc.user
       ELSE /\ doc.type = "todo_reminder"
            /\ doc.related \in DOMAIN sweeps[m].tdocs
            /\ sweeps[m].tdocs[doc.related].user = doc.user
            /\ StoredTodo(doc.related) => todos[doc.related].user = doc.user

\* C22: every notification the dispatcher creates is of the user who owns
\* the event or todo it comes from and references that event or todo, and
\* its socket message goes to the room named by that user's id and to no
\* other room.
C22_NotificationGoesToOwner ==
  [][/\ \A doc \in CreatedByStep :
          /\ Originating(doc)
          /\ [room |-> doc.user, notification |-> doc] \in emitted'
     /\ \A msg \in emitted' \ emitted :
          msg.notification \in CreatedByStep /\ msg.room = msg.notification.user]_vars

\* Messages have gone to the rooms of two users, each about the user's
\* own event or todo.
C22_Witness ==
  \E a, b \in emitted :
    /\ a.room # b.room
    /\ a.notification.type = "event_reminder" /\ a.notification.user = a.room
    /\ b.notification.type = "todo_reminder" /\ b.notification.user = b.room

----------------------------------------------------------------------------
(* The notification routes. Documents that are equal are told apart only   *)
(* by their number: read counts, for each document, how many of the stored *)
(* notifications equal to it have read: true.                              *)

ReadCount(doc) == IF doc \in DOMAIN read THEN read[doc] ELSE 0
UnreadCount(doc) == Notified(doc) - ReadCount(doc)
WithCount(bag, doc, n) ==
  IF n = 0
  THEN [d \in DOMAIN bag \ {doc} |-> bag[d]]
  ELSE [d \in DOMAIN bag \cup {doc} |-> IF d = doc THEN n ELSE bag[d]]

\* PUT /api/notifications/:id/read: findOneAndUpdate({_id, user}, {read: true}).
\* The notification of the id is one equal to doc, unread or already read;
\* 404 and no write when it is of another user.
MarkRead(userId, doc, isUnread) ==
  /\ IF isUnread THEN UnreadCount(doc) > 0 ELSE ReadCount(doc) > 0
  /\ IF doc.user = userId /\ isUnread
     THEN read' = WithCount(read, doc, ReadCount(doc) + 1)
     ELSE UNCHANGED read
  /\ UNCHANGED notifications

\* An update of every user's notifications
MarkAllReadOfAll(userId) ==
  /\ read' = notifications
  /\ UNCHANGED notifications

\* PUT /api/notifications/read-all: updateMany({user, read: false}, {read: true})
MarkAllRead(userId) ==
  /\ read' = [d \in { n \in DOMAIN notifications : n.user = userId \/ n \in DOMAIN read } |->
                IF d.user = userId THEN notifications[d] ELSE read[d]]
  /\ UNCHANGED notifications

\* DELETE /api/notifications/:id: findOneAndDelete({_id, user})
DeleteNotification(userId, doc, isUnread) ==
  /\ IF isUnread THEN UnreadCount(doc) > 0 ELSE ReadCount(doc) > 0
  /\ IF doc.user = userId
     THEN /\ notifications' = WithCount(notifications, doc, Notified(doc) - 1)
          /\ read' = IF isUnread THEN read ELSE WithCount(read, doc, ReadCount(doc) - 1)
     ELSE UNCHANGED <<notifications, read>>

\* DELETE /api/notifications: deleteMany({user})
DeleteAllNotifications(userId) ==
  /\ notifications' = [d \in { n \in DOMAIN notifications : n.user # userId } |-> notifications[d]]
  /\ read' = [d \in { n \in DOMAIN read : n.user # userId } |-> read[d]]

\* The rest of the state is left alone by the notification routes.
NotificationFrame ==
  UNCHANGED <<events, response, todos, sweeps, requests, emitted, calendars, handlers, focus,
              history>>

NotificationsRead ==
  \E u \in Users, doc \in DOMAIN notifications, isUnread \in BOOLEAN :
    MarkRead(u, doc, isUnread) /\ NotificationFrame
NotificationsReadAll == \E u \in Users : MarkAllRead(u) /\ NotificationFrame
NotificationsDelete ==
  \E u \in Users, doc \in DOMAIN notifications, isUnread \in BOOLEAN :
    DeleteNotification(u, doc, isUnread) /\ NotificationFrame
NotificationsDeleteAll == \E u \in Users : DeleteAllNotifications(u) /\ NotificationFrame

\* The dispatcher without store failures, and the notification routes.
NextNotifications ==
  \/ EventsPost \/ TodosPost
  \/ Tick
  \/ \E m \in Ticks : SweepCreate(m)
  \/ \E m \in Ticks : SweepSave(m)
  \/ \E m \in Ticks : SweepFindTodos(m)
  \/ \E m \in Ticks : SweepTodoCreate(m)
  \/ \E m \in Ticks : SweepTodoSave(m)
  \/ NotificationsRead \/ NotificationsReadAll
  \/ NotificationsDelete \/ NotificationsDeleteAll

SpecNotifications == Init /\ [][NextNotifications]_vars

\* A notification request of the user
NotificationRequestOf(userId) ==
  \/ \E doc \in DOMAIN notifications, isUnread \in BOOLEAN :
       MarkRead(userId, doc, isUnread) \/ DeleteNotification(userId, doc, isUnread)
  \/ MarkAllRead(userId)
  \/ DeleteAllNotifications(userId)

\* C23: a notification is created unread; the number of read
\* notifications grows only by a mark-read or mark-all-read request of
\* their user; no read notification becomes unread again (the unread grow
\* only by creation); and a user's request changes no notification of
\* another user.
C23_ReadOnlyByOwnerAndForGood ==
  [][/\ \A doc \in CreatedByStep : ReadCount(doc)' = ReadCount(doc)
     /\ \A doc \in DOMAIN read' :
          ReadCount(doc)' > ReadCount(doc) =>
            \/ MarkRead(doc.user, doc, TRUE)
            \/ MarkAllRead(doc.user)
     /\ \A doc \in DOMAIN notifications \cup DOMAIN notifications' :
          UnreadCount(doc)' > UnreadCount(doc) =>
            UnreadCount(doc)' - UnreadCount(doc) = Notified(doc)' - Notified(doc)
     /\ \A u \in Users :
          NotificationRequestOf(u) =>
            \A doc \in DOMAIN notifications :
              doc.user # u => Notified(doc)' = Notified(doc) /\ ReadCount(doc)' = ReadCount(doc)]_vars

\* A notification of one user is read after that user's request while a
\* notification of another user is unread.
C23_Witness ==
  \E a, b \in DOMAIN notifications :
    /\ a.user # b.user
    /\ ReadCount(a) = Notified(a)
    /\ ReadCount(b) = 0

----------------------------------------------------------------------------
(* Properties of the free-slot cursor *)

\* The listings of the events the answered request may have been given,
\* and the cursor after the first k events of a listing.
AnsweredOrders ==
  SortedByStart(MatchingEvents(response.user, response.dayStart, response.dayEnd))
CursorAfter(order, k) ==
  SlotLoop(order, k, response.dayStart, response.dayEnd, response.duration).currentTime
ClampedEnd(id) == IF events[id].end < response.dayEnd THEN events[id].end ELSE response.dayEnd

\* Event b lies within event a.
Contains(a, b) ==
  /\ a # b
  /\ events[a].start <= events[b].start
  /\ events[b].end <= events[a].end

\* C24: during the loop the cursor never moves backward: after each
\* event it is the larger of its previous value and the event's clamped
\* end, so that no slot lies in an event that contains a later one.
C24_CursorNeverMovesBack ==
  SlotsAnswered =>
    \A order \in AnsweredOrders :
      /\ \A k \in 1..Len(order) :
           /\ CursorAfter(order, k) >= CursorAfter(order, k - 1)
           /\ CursorAfter(order, k) =
                IF CursorAfter(order, k - 1) >= ClampedEnd(order[k])
                THEN CursorAfter(order, k - 1)
                ELSE ClampedEnd(order[k])
      /\ \A a, b \in UserEvents(response.user) :
           Contains(a, b) =>
             \A k \in SlotIndexes, t \in AllInstants :
               ~(SlotCovers(response.freeSlots[k], t) /\ EventCovers(a, t))

\* An answered request over an event that contains a later one: the
\* cursor stays at the end of the first when the second is passed, and
\* a slot follows the first.
C24_Witness ==
  /\ SlotsAnswered
  /\ \E order \in AnsweredOrders :
       /\ Len(order) = 2
       /\ Contains(order[1], order[2])
       /\ events[order[2]].end < events[order[1]].end
       /\ events[order[2]].start < events[order[2]].end
       /\ CursorAfter(order, 2) = CursorAfter(order, 1)
       /\ CursorAfter(order, 2) = events[order[1]].end
       /\ response.freeSlots # << >>

----------------------------------------------------------------------------
(* Properties of the update's effect on the sent flags *)

\* The body's start or reminders differ from the stored ones.
StoredTimes(id) == [i \in DOMAIN events[id].reminders |-> events[id].reminders[i].time]
ChangesStartOrReminders(id, b) ==
  \/ b.start # Absent /\ b.start[1] # events[id].start
  \/ b.reminders # Absent /\ b.reminders[1] # StoredTimes(id)

AllUnsentAfter(id) ==
  \A i \in DOMAIN events'[id].reminders : ~events'[id].reminders[i].sent
SentFlagsKept(id) ==
  /\ DOMAIN events'[id].reminders = DOMAIN events[id].reminders
  /\ \A i \in DOMAIN events[id].reminders :
       events'[id].reminders[i].sent = events[id].reminders[i].sent

\* C25: an update of an event sets every reminder to sent = false
\* exactly when it changes start or reminders, and otherwise leaves
\* every sent flag as it was.
C25_ResetExactlyOnChange ==
  [][\A u \in Users, id \in EventIds, b \in PutBodies :
       Owned(u, id) /\ PutEvent(u, id, b.start, b.end, b.reminders) =>
         IF ChangesStartOrReminders(id, b) THEN AllUnsentAfter(id) ELSE SentFlagsKept(id)]_vars

\* The flags are reset exactly when the body has start or reminders.
C25_ResetExactlyOnPresence ==
  [][\A u \in Users, id \in EventIds, b \in PutBodies :
       Owned(u, id) /\ PutEvent(u, id, b.start, b.end, b.reminders) =>
         IF ResetsReminders(b.start, b.reminders) THEN AllUnsentAfter(id) ELSE SentFlagsKept(id)]_vars

----------------------------------------------------------------------------
(* Properties of the sweep beside interleaved requests *)

\* The reminder the invocation of tick m handles next, or has just
\* notified.
NextReminder(m) == First(Pending(sweeps[m]))

\* The stored event has the reminder unsent, with its trigger at or
\* before now and its start after now.
JustifiedByStore(id, i, now) ==
  /\ Stored(id)
  /\ i \in DOMAIN events[id].reminders
  /\ ~events[id].reminders[i].sent
  /\ Due(events[id], i, now)
  /\ now < events[id].start

\* The save turns to sent, or adds as sent, only the stored reminder at
\* index i, and that one has the offset the notification was made for.
MarksOnlyNotified(id, i, local) ==
  /\ Len(events'[id].reminders) = Len(events[id].reminders)
  /\ \A j \in DOMAIN events[id].reminders :
       events'[id].reminders[j] # events[id].reminders[j] => j = i
  /\ events[id].reminders[i].time = local.reminders[i].time

\* C26: a sweep creates an event reminder's notification only when the
\* stored event, at that moment, has the reminder unsent and in its
\* window, and the save marks only the reminder that was notified,
\* whatever requests were served since the sweep's query.
C26_CreateAndMarkFollowStore ==
  [][\A m \in Ticks :
       /\ SweepCreate(m) =>
            JustifiedByStore(NextReminder(m)[2], NextReminder(m)[3], sweeps[m].now)
       /\ (SweepSave(m) /\ Stored(sweeps[m].cur[1][2])) =>
            MarksOnlyNotified(sweeps[m].cur[1][2], sweeps[m].cur[1][3],
                              sweeps[m].docs[sweeps[m].cur[1][2]])]_vars

\* The same of the creation alone, and of the save alone.
C26_CreateFollowsStore ==
  [][\A m \in Ticks :
       SweepCreate(m) =>
         JustifiedByStore(NextReminder(m)[2], NextReminder(m)[3], sweeps[m].now)]_vars
C26_SaveMarksOnlyNotified ==
  [][\A m \in Ticks :
       (SweepSave(m) /\ Stored(sweeps[m].cur[1][2])) =>
         MarksOnlyNotified(sweeps[m].cur[1][2], sweeps[m].cur[1][3],
                           sweeps[m].docs[sweeps[m].cur[1][2]])]_vars

----------------------------------------------------------------------------
(* The focus session routes. A handler is a request between two awaited    *)
(* store calls; n tells apart the requests in flight.                      *)

FocusHandlers == { h \in handlers : h.route \in {"start", "complete", "interrupt", "cancel",
                                                  "distraction"} }
FreeNumber == CHOOSE k \in 1..MaxInFlight : \A h \in FocusHandlers : h.n # k
StoredSession(id) == sessions[id] # NoSession
FreshSessionIds == { id \in SessionIds : ~StoredSession(id) }
NextSessionId == CHOOSE id \in FreshSessionIds : \A other \in FreshSessionIds : id <= other

\* FocusSession.findOne({_id, user: req.userId, status: 'active'})
ActiveSession(userId, id) ==
  /\ StoredSession(id)
  /\ sessions[id].user = userId
  /\ sessions[id].status = "active"
\* FocusSession.findOne({user: req.userId, status: 'active'})
HasActiveSession(userId) == \E id \in SessionIds : ActiveSession(userId, id)

\* new FocusSession({user, startTime, plannedDuration, ..., status: 'active'})
NewSession(userId) == [user |-> userId, status |-> "active", distractions |-> 0]

StartHandler(userId, n) == [route |-> "start", user |-> userId, next |-> "session.save", n |-> n]
SessionHandler(route, userId, id, n) ==
  [route |-> route, user |-> userId, session |-> id, next |-> "session.save", duration |-> 0,
   n |-> n]

\* io.to(req.userId.toString()).emit('focus:...', session)
FocusEmit(userId, event, id) == [room |-> Room(userId), event |-> event, session |-> id]

\* Math.round((endTime - startTime) / (1000 * 60))
ActualDurations == {0, 1}

\* The achievement notification of a milestone
Milestones == {10, 25, 50, 100, 250, 500}
Achievement(userId, count) ==
  [user |-> userId, type |-> "achievement", related |-> 0, minutes |-> count]

\* POST /api/focus/sessions up to session.save(): 400 with an active
\* session of the user.
StartCheck(userId) ==
  /\ Cardinality(FocusHandlers) < MaxInFlight
  /\ Cardinality(Handling("start")) < Cardinality(FreshSessionIds)
  /\ handlers' = IF HasActiveSession(userId)
                 THEN handlers
                 ELSE handlers \cup {StartHandler(userId, FreeNumber)}
  /\ UNCHANGED <<sessions, focusStats, notifications, emitted>>

\* session.save() of the new session, the emit and the answer 201.
StartSave(h) ==
  /\ h \in Handling("start")
  /\ sessions' = [sessions EXCEPT ![NextSessionId] = NewSession(h.user)]
  /\ emitted' = emitted \cup {FocusEmit(h.user, "focus:started", NextSessionId)}
  /\ handlers' = handlers \ {h}
  /\ UNCHANGED <<focusStats, notifications>>

\* The four routes of a session up to session.save(): 404 without an
\* active session of the user under the id.
FindActive(route, userId, id) ==
  /\ Cardinality(FocusHandlers) < MaxInFlight
  /\ (route = "distraction" /\ StoredSession(id)) => sessions[id].distractions < MaxDistractions
  /\ handlers' = IF ActiveSession(userId, id)
                 THEN handlers \cup {SessionHandler(route, userId, id, FreeNumber)}
                 ELSE handlers
  /\ UNCHANGED <<sessions, focusStats, notifications, emitted>>

\* session.save() writes the paths the handler has modified: status, and
\* the pushed distraction.
SessionSave(h) ==
  /\ h \in FocusHandlers
  /\ h.route # "start"
  /\ h.next = "session.save"
  /\ UNCHANGED <<focusStats, notifications>>
  /\ \/ /\ h.route = "complete"
        /\ sessions' = [sessions EXCEPT ![h.session].status = "completed"]
        /\ \E d \in ActualDurations :
             handlers' = (handlers \ {h})
                           \cup {[h EXCEPT !.next = "User.findByIdAndUpdate", !.duration = d]}
        /\ UNCHANGED emitted
     \/ /\ h.route = "interrupt"
        /\ sessions' = [sessions EXCEPT ![h.session].status = "interrupted",
                                        ![h.session].distractions = @ + 1]
        /\ \E d \in ActualDurations :
             handlers' = (handlers \ {h})
                           \cup {[h EXCEPT !.next = "User.findByIdAndUpdate", !.duration = d]}
        /\ UNCHANGED emitted
     \/ /\ h.route = "cancel"
        /\ sessions' = [sessions EXCEPT ![h.session].status = "cancelled"]
        /\ emitted' = emitted \cup {FocusEmit(h.user, "focus:cancelled", h.session)}
        /\ handlers' = handlers \ {h}
     \/ /\ h.route = "distraction"
        /\ sessions' = [sessions EXCEPT ![h.session].distractions = @ + 1]
        /\ handlers' = handlers \ {h}
        /\ UNCHANGED emitted

\* User.findByIdAndUpdate(req.userId, {$inc: ...}): complete counts the
\* session and its time, interrupt the time; interrupt then emits and
\* answers.
UpdateStats(h) ==
  /\ h \in FocusHandlers
  /\ h.next = "User.findByIdAndUpdate"
  /\ focusStats' = [focusStats EXCEPT ![h.user] =
       [totalFocusTime |-> @.totalFocusTime + h.duration,
        sessionsCompleted |-> @.sessionsCompleted + (IF h.route = "complete" THEN 1 ELSE 0)]]
  /\ IF h.route = "complete"
     THEN /\ handlers' = (handlers \ {h}) \cup {[h EXCEPT !.next = "User.findById"]}
          /\ UNCHANGED emitted
     ELSE /\ handlers' = handlers \ {h}
          /\ emitted' = emitted \cup {FocusEmit(h.user, "focus:interrupted", h.session)}
  /\ UNCHANGED <<sessions, notifications>>

\* User.findById and the notification of a milestone, the emit and the
\* answer of complete.
Milestone(h) ==
  /\ h \in FocusHandlers
  /\ h.next = "User.findById"
  /\ notifications' =
       IF focusStats[h.user].sessionsCompleted \in Milestones
       THEN Create(notifications, Achievement(h.user, focusStats[h.user].sessionsCompleted))
       ELSE notifications
  /\ emitted' = emitted \cup {FocusEmit(h.user, "focus:completed", h.session)}
  /\ handlers' = handlers \ {h}
  /\ UNCHANGED <<sessions, focusStats>>

FocusFrame ==
  UNCHANGED <<events, response, todos, sweeps, requests, calendars, read, history>>
FocusRoutes == {"complete", "interrupt", "cancel", "distraction"}

FocusStart == \E u \in Users : StartCheck(u) /\ FocusFrame
FocusStartSave == \E h \in handlers : StartSave(h) /\ FocusFrame
FocusFind ==
  \E route \in FocusRoutes, u \in Users, id \in SessionIds : FindActive(route, u, id) /\ FocusFrame
FocusSave == \E h \in handlers : SessionSave(h) /\ FocusFrame
FocusStats == \E h \in handlers : UpdateStats(h) /\ FocusFrame
FocusMilestone == \E h \in handlers : Milestone(h) /\ FocusFrame

NextFocus ==
  \/ FocusStart \/ FocusStartSave \/ FocusFind \/ FocusSave \/ FocusStats \/ FocusMilestone

SpecFocus == Init /\ [][NextFocus]_vars

----------------------------------------------------------------------------
(* Properties of the focus sessions *)

ActiveSessionsOf(userId) == { id \in SessionIds : ActiveSession(userId, id) }

\* C27: a user never has two focus sessions with status 'active',
\* however the start requests interleave.
C27_AtMostOneActiveSession ==
  \A u \in Users : Cardinality(ActiveSessionsOf(u)) <= 1

Terminal == {"completed", "interrupted", "cancelled"}
StatusChanges(id) == StoredSession(id) /\ sessions'[id].status # sessions[id].status
EndedSessionsOf(userId) ==
  { id \in SessionIds : StoredSession(id) /\ sessions[id].user = userId
                        /\ sessions[id].status \in Terminal }

\* A session's status changes only from 'active' to one of the three
\* final values.
OnlyFromActive ==
  \A id \in SessionIds :
    StatusChanges(id) => sessions[id].status = "active" /\ sessions'[id].status \in Terminal

\* A request for a session that is not active is answered 404 at once and
\* changes nothing.
EndedSessionRefuses ==
  \A id \in SessionIds, u \in Users, route \in FocusRoutes :
    (StoredSession(id) /\ sessions[id].status # "active" /\ FindActive(route, u, id)) =>
      UNCHANGED <<sessions, focusStats, handlers>>

\* sessionsCompleted has counted no session twice.
CountedAtMostOnce ==
  \A u \in Users : focusStats[u].sessionsCompleted <= Cardinality(EndedSessionsOf(u))

\* C28: a session's status changes only from 'active' to completed,
\* interrupted or cancelled; complete, interrupt, cancel and
\* log-distraction of a session that is not active return 404 and leave
\* the session and focusStats unchanged; and sessionsCompleted is
\* incremented at most once per session.
C28_SessionEndsOnce ==
  [][OnlyFromActive /\ EndedSessionRefuses /\ CountedAtMostOnce']_vars

\* The parts of C28 on their own.
C28_OnlyFromActive == [][OnlyFromActive]_vars
C28_EndedSessionRefuses == [][EndedSessionRefuses]_vars
C28_CountedAtMostOnce == CountedAtMostOnce

----------------------------------------------------------------------------
(* The history store of the client: the stacks hold the newest action      *)
(* first.                                                                  *)

HistoryActions == {"a", "b", "c"}
Take(s, n) == SubSeq(s, 1, Min(Len(s), n))

\* The store without the cut of the undo stack
PushedUncut(stacks, action) == [undoStack |-> <<action>> \o stacks.undoStack, redoStack |-> << >>]

\* pushAction: undoStack: [newAction, ...state.undoStack].slice(0, state.maxHistorySize),
\* redoStack: []
Pushed(stacks, action) ==
  [undoStack |-> Take(<<action>> \o stacks.undoStack, maxHistorySize), redoStack |-> << >>]

\* undo: nothing with an empty undoStack, or its first action moves to the
\* front of redoStack.
Undone(stacks) ==
  IF Len(stacks.undoStack) = 0
  THEN stacks
  ELSE [undoStack |-> Tail(stacks.undoStack),
        redoStack |-> <<Head(stacks.undoStack)>> \o stacks.redoStack]

\* redo: nothing with an empty redoStack, or its first action moves to the
\* front of undoStack.
Redone(stacks) ==
  IF Len(stacks.redoStack) = 0
  THEN stacks
  ELSE [undoStack |-> <<Head(stacks.redoStack)>> \o stacks.undoStack,
        redoStack |-> Tail(stacks.redoStack)]

\* clearHistory
Cleared == [undoStack |-> << >>, redoStack |-> << >>]

Stacks == [undoStack |-> undoStack, redoStack |-> redoStack]
SetStacks(stacks) == undoStack' = stacks.undoStack /\ redoStack' = stacks.redoStack
HistoryFrame ==
  UNCHANGED <<events, response, todos, notifications, sweeps, requests, emitted, calendars,
              handlers, read, focus>>

pushAction == \E action \in HistoryActions : SetStacks(Pushed(Stacks, action)) /\ HistoryFrame
undo == SetStacks(Undone(Stacks)) /\ HistoryFrame
redo == SetStacks(Redone(Stacks)) /\ HistoryFrame
clearHistory == SetStacks(Cleared) /\ HistoryFrame

NextHistory == pushAction \/ undo \/ redo \/ clearHistory

SpecHistory == Init /\ [][NextHistory]_vars

----------------------------------------------------------------------------
(* Properties of the history store *)

WithinHistorySize == Len(undoStack) + Len(redoStack) <= maxHistorySize
PushEmptiesRedo == pushAction => redoStack' = << >>

\* C30: the two stacks together never hold more than maxHistorySize
\* actions, pushAction empties redoStack, and undo followed at once by
\* redo leaves both stacks as they were.
C30_HistoryStacks ==
  /\ [](WithinHistorySize /\ Redone(Undone(Stacks)) = Stacks)
  /\ [][PushEmptiesRedo]_vars

\* C30, amended: the same, the last for an undo that has an action to
\* undo.
C30_HistoryStacksUndoable ==
  /\ [](WithinHistorySize /\ (undoStack # << >> => Redone(Undone(Stacks)) = Stacks))
  /\ [][PushEmptiesRedo]_vars

\* The stacks are full after an undo, and a push is about to cut the
\* undo stack's oldest action and empty the redo stack.
C30_Witness ==
  /\ Len(undoStack) + Len(redoStack) = maxHistorySize
  /\ undoStack # << >>
  /\ redoStack # << >>
  /\ Undone(Stacks) # Stacks
  /\ Redone(Undone(Stacks)) = Stacks
============================================================================
